---------------------------- MODULE Spec2Model ----------------------------
(***************************************************************************)
(* A model of batchpatch (src/batchpatch.py): the filename parser          *)
(* (create_file_entity), the sanitizer (neutralize_str), the Windows       *)
(* safety check (is_name_windows_safe), the patch name formatter           *)
(* (get_patch_name), the pairing pass (identify_file_pairs_by_name) and    *)
(* the sequence of steps of run().                                         *)
(*                                                                         *)
(* Strings are sequences of characters.  An ASCII character is the         *)
(* one-character string of itself; a non-ASCII character is named by its   *)
(* code point ("U+00E9").  Python's None is the value None below.          *)
(***************************************************************************)
EXTENDS Integers, Sequences, FiniteSets, TLC

VARIABLES
    pc,                  \* where run() is (or how it ended)
    exc,                 \* the exception that ended the run, "" when none
    old_files,           \* os.listdir(old_dir), line 409
    new_files,           \* os.listdir(new_dir), line 410
    pattern,             \* patch_options['filename_pattern'], line 158
    args_zip,            \* args.zip as line 178 read it, "unread" before
    old_parsed,          \* the list of line 413: the old files parsed, None kept
    new_parsed,          \* the list of line 431: the new files parsed, None kept
    filemap,             \* the dict of line 411, in insertion order
    gi,                  \* how many items of filemap the loop of line 462 has taken
    resolved_relations,  \* the list of line 461
    file_pairs,          \* run()'s file_pairs, line 168
    steps,               \* the downstream steps run() has performed, in order
    pi,                  \* how many pairs the loop of line 234 has taken
    calls,               \* the command lines of line 270, in order
    temps,               \* the temporary copies that exist
    script,              \* the blocks of lines 309-374 in the script, in order
    arg,                 \* the argument of a function called on its own
    ret                  \* what that call returned

patchVars == <<pi, calls, temps, script>>

parsedVars == <<old_parsed, new_parsed>>

vars == <<pc, exc, old_files, new_files, pattern, args_zip, filemap, gi,
          resolved_relations, file_pairs, steps, patchVars, parsedVars, arg,
          ret>>

runVars == <<pc, exc, old_files, new_files, pattern, args_zip, filemap, gi,
             resolved_relations, file_pairs, steps, patchVars, parsedVars>>

----------------------------------------------------------------------------
(* Characters and strings *)

None == <<"None">>

LowerSeq == <<"a", "b", "c", "d", "e", "f", "g", "h", "i", "j", "k", "l", "m",
              "n", "o", "p", "q", "r", "s", "t", "u", "v", "w", "x", "y", "z">>

UpperSeq == <<"A", "B", "C", "D", "E", "F", "G", "H", "I", "J", "K", "L", "M",
              "N", "O", "P", "Q", "R", "S", "T", "U", "V", "W", "X", "Y", "Z">>

DigitSeq == <<"0", "1", "2", "3", "4", "5", "6", "7", "8", "9">>

Range(q) == {q[i] : i \in 1..Len(q)}

Lower == Range(LowerSeq)

Upper == Range(UpperSeq)

\* [a-zA-Z]
Letters == Lower \cup Upper

\* \d (the ASCII digits; the model's alphabet holds no other decimal digit)
Digits == Range(DigitSeq)

\* [0-9a-fA-F]
HexDigits == Digits \cup {"a", "b", "c", "d", "e", "f", "A", "B", "C", "D", "E", "F"}

Max(S) == CHOOSE x \in S : \A y \in S : y <= x

Min(S) == CHOOSE x \in S : \A y \in S : x <= y

\* s[p..] starts with the literal w
StartsWith(s, p, w) ==
    /\ p >= 1
    /\ p + Len(w) - 1 <= Len(s)
    /\ \A i \in 1..Len(w) : s[p + i - 1] = w[i]

\* The length of the longest run of characters of C that starts at s[p]
RunLen(s, p, C) ==
    LET stops == {i \in p..Len(s) : s[i] \notin C}
    IN  IF p > Len(s) THEN 0
        ELSE IF stops = {} THEN Len(s) - p + 1
        ELSE Min(stops) - p

\* The index of the first c at or after s[p], 0 when there is none
IndexFrom(s, p, c) ==
    LET at == {i \in p..Len(s) : s[i] = c}
    IN  IF at = {} THEN 0 ELSE Min(at)

\* The index of the last c of s, 0 when there is none
LastIndex(s, c) ==
    LET at == {i \in 1..Len(s) : s[i] = c}
    IN  IF at = {} THEN 0 ELSE Max(at)

DigitVal(c) == CHOOSE d \in 0..9 : DigitSeq[d + 1] = c

\* int(digits) for a non-empty string of digits
RECURSIVE IntOf(_)
IntOf(ds) ==
    IF Len(ds) = 0 THEN 0
    ELSE 10 * IntOf(SubSeq(ds, 1, Len(ds) - 1)) + DigitVal(ds[Len(ds)])

\* str(n) for n >= 0
RECURSIVE StrOfInt(_)
StrOfInt(n) ==
    IF n < 10 THEN <<DigitSeq[n + 1]>>
    ELSE Append(StrOfInt(n \div 10), DigitSeq[(n % 10) + 1])

\* "/".join(parts)
RECURSIVE Join(_)
Join(parts) ==
    IF Len(parts) = 0 THEN <<>>
    ELSE IF Len(parts) = 1 THEN parts[1]
    ELSE parts[1] \o <<"/">> \o Join(Tail(parts))

----------------------------------------------------------------------------
(* create_file_entity: the regular expression of lines 515-524.  re.match  *)
(* is a backtracking matcher: at each optional or repeated item it tries   *)
(* the alternatives in the item's order of preference (greedy: longest     *)
(* first, lazy: shortest first) and keeps the first one with which the     *)
(* rest of the pattern matches.  MatchX(s, p) is the match of the pattern  *)
(* from item X on against s[p..]: a record of the groups it captured.      *)

Torrent == <<"t", "o", "r", "r", "e", "n", "t">>

NoMatch == [ok |-> FALSE, g1 |-> None, g2 |-> None, g3 |-> None, g4 |-> None,
            g5 |-> None, g6 |-> None, g7 |-> None]

\* A mutant of MatchExt: the lookahead (?!torrent$) left out
MatchExtNoLookahead(s, p) ==
    LET d == LastIndex(s, ".")
        ext == SubSeq(s, d + 1, Len(s))
    IN  IF d = 0 \/ d < p \/ d = Len(s) THEN NoMatch
        ELSE IF ~(d = p \/ (s[p] = "." /\ d >= p + 2)) THEN NoMatch
        ELSE [NoMatch EXCEPT !.ok = TRUE, !.g7 = ext]

\* (?:\..+)?  \.  (?!torrent$)  ([^\.]+)$
\* [^\.]+$ makes the \. the last dot of s, with at least one character after
\* it; the optional (?:\..+) then either is skipped (the last dot is s[p]) or
\* starts with a dot at s[p] and takes at least one character before the
\* last dot.
MatchExt(s, p) ==
    LET d == LastIndex(s, ".")
        ext == SubSeq(s, d + 1, Len(s))
    IN  IF d = 0 \/ d < p \/ d = Len(s) THEN NoMatch
        ELSE IF ~(d = p \/ (s[p] = "." /\ d >= p + 2)) THEN NoMatch
        ELSE IF ext = Torrent THEN NoMatch
        ELSE [NoMatch EXCEPT !.ok = TRUE, !.g7 = ext]

\* hi, hi - 1, ..., lo
Descending(hi, lo) == [i \in 1..(hi - lo + 1) |-> hi - i + 1]

\* lo, lo + 1, ..., hi
Ascending(lo, hi) == [i \in 1..(hi - lo + 1) |-> lo + i - 1]

\* Backtracking over one item: order lists the places where the item can
\* end, in the order in which the matcher tries them, and tried[q] is the
\* match of the rest of the pattern at s[q..].  The first place with which
\* the rest matches is kept (at), with that match (m); at is 0 when there
\* is none.
RECURSIVE FirstMatch(_, _)
FirstMatch(order, tried) ==
    IF Len(order) = 0 THEN [at |-> 0, m |-> NoMatch]
    ELSE LET m == tried[order[1]]
         IN  IF m.ok THEN [at |-> order[1], m |-> m]
             ELSE FirstMatch(Tail(order), tried)

\* (?#6. CRC hash)(?: \[([0-9a-fA-F]{8})\])?
HasCrc(s, p) ==
    /\ StartsWith(s, p, <<" ", "[">>)
    /\ p + 10 <= Len(s)
    /\ \A i \in (p + 2)..(p + 9) : s[i] \in HexDigits
    /\ s[p + 10] = "]"

GroupCrc(s, p, c) ==
    IF c.at > p THEN [c.m EXCEPT !.g6 = SubSeq(s, p + 2, p + 9)] ELSE c.m

MatchCrc(s, p) ==
    GroupCrc(s, p,
        FirstMatch(IF HasCrc(s, p) THEN <<p + 11, p>> ELSE <<p>>,
                   [q \in {p, p + 11} |-> MatchExt(s, q)]))

\* (?#5. Other specifiers)(?: \(([^\)]*)\))?
\* [^\)]* ends at the first ")" at or after s[p + 2]
CloseOther(s, p) ==
    IF StartsWith(s, p, <<" ", "(">>) THEN IndexFrom(s, p + 2, ")") ELSE 0

GroupOther(s, p, c) ==
    IF c.at > p THEN [c.m EXCEPT !.g5 = SubSeq(s, p + 2, c.at - 2)] ELSE c.m

MatchOther(s, p) ==
    GroupOther(s, p,
        FirstMatch(IF CloseOther(s, p) > 0 THEN <<CloseOther(s, p) + 1, p>>
                   ELSE <<p>>,
                   [q \in {p, CloseOther(s, p) + 1} |-> MatchCrc(s, q)]))

\* (?#4. Version specifier)(?:v(\d*))?
\* After the v, \d* is greedy: the longest run of digits is tried first.
\* FarVer is where that run ends, p when there is no v.
FarVer(s, p) ==
    IF StartsWith(s, p, <<"v">>) THEN p + 1 + RunLen(s, p + 1, Digits) ELSE p

GroupVer(s, p, c) ==
    IF c.at > p THEN [c.m EXCEPT !.g4 = SubSeq(s, p + 1, c.at - 1)] ELSE c.m

MatchVer(s, p) ==
    GroupVer(s, p,
        FirstMatch(Descending(FarVer(s, p), p),
                   [q \in p..FarVer(s, p) |-> MatchOther(s, q)]))

\* (?#3. Episode specifier)(?: - ([a-zA-Z]*\d*))?
\* Greedy [a-zA-Z]* then greedy \d*: the group ends first after all the
\* letters and all the digits that follow them, then after fewer digits,
\* then after fewer letters (and no digit, a letter following).  FarEp is
\* the first of these ends.
FarEp(s, p) ==
    LET letters == RunLen(s, p + 3, Letters)
    IN  p + 3 + letters + RunLen(s, p + 3 + letters, Digits)

GroupEp(s, p, c) ==
    IF c.at > p THEN [c.m EXCEPT !.g3 = SubSeq(s, p + 3, c.at - 1)] ELSE c.m

MatchEp(s, p) ==
    GroupEp(s, p,
        FirstMatch(IF StartsWith(s, p, <<" ", "-", " ">>)
                   THEN Descending(FarEp(s, p), p + 3) \o <<p>>
                   ELSE <<p>>,
                   [q \in p..(Len(s) + 1) |-> MatchVer(s, q)]))

\* (?#2. Main name)(.+?)
\* Lazy: the name ends first after one character, then after more.
GroupName(s, p, c) ==
    IF c.at > p THEN [c.m EXCEPT !.g2 = SubSeq(s, p, c.at - 1)] ELSE c.m

MatchName(s, p) ==
    GroupName(s, p,
        FirstMatch(Ascending(p + 1, Len(s) + 1),
                   [q \in (p + 1)..(Len(s) + 1) |-> MatchEp(s, q)]))

\* (?#1. Group shortname)(?:\[([^\]]+?)\] )?
\* [^\]]+? takes at least one character and ends at the first "]" after
\* s[1], which a space follows.
CloseGroup(s) ==
    LET q == IndexFrom(s, 2, "]")
    IN  IF StartsWith(s, 1, <<"[">>) /\ q >= 3 /\ StartsWith(s, q, <<"]", " ">>)
        THEN q ELSE 0

GroupGroup(s, c) ==
    IF c.at > 1 THEN [c.m EXCEPT !.g1 = SubSeq(s, 2, c.at - 3)] ELSE c.m

MatchGroup(s) ==
    GroupGroup(s,
        FirstMatch(IF CloseGroup(s) > 0 THEN <<CloseGroup(s) + 2, 1>> ELSE <<1>>,
                   [q \in {1, CloseGroup(s) + 2} |-> MatchName(s, q)]))

----------------------------------------------------------------------------
(* create_file_entity, lines 526-548 *)

\* What create_file_entity returns for a filename that does not match
NoFile == [none |-> TRUE, key |-> <<>>, ver |-> 0, group |-> None, name |-> None,
           ep |-> None, specifier |-> <<>>, crc |-> None, ext |-> None,
           filename |-> <<>>]

\* os.path.join(basedir, name), for a name that is no absolute path
PathJoin(basedir, name) == basedir \o <<"/">> \o name

\* os.path.basename(path)
Basename(path) == SubSeq(path, LastIndex(path, "/") + 1, Len(path))

\* Line 537: the groups 1, 2, 3, 5, 7 that are strings, joined with "/"
KeyOf(m) ==
    Join(SelectSeq(<<m.g1, m.g2, m.g3, m.g5, m.g7>>, LAMBDA g : g # None))

\* Lines 529-531 and 538: int(ver), ver being 1 when group 4 did not take part.
\* int('') raises ValueError.
VerRaises(m) == m.g4 # None /\ Len(m.g4) = 0

\* A mutant of VerOf: the default of line 531 is 0
VerOfDefaultZero(m) == IF m.g4 = None THEN 0 ELSE IntOf(m.g4)

VerOf(m) == IF m.g4 = None THEN 1 ELSE IntOf(m.g4)

\* Lines 527-548, m being the match of line 526: what create_file_entity
\* raises ("" when it returns) and what it returns
EntityOf(m, filename, basedir) ==
    IF ~m.ok THEN [raises |-> "", file |-> NoFile]
    ELSE IF VerRaises(m) THEN [raises |-> "ValueError", file |-> NoFile]
    ELSE [raises |-> "",
          file |-> [none |-> FALSE,
                    key |-> KeyOf(m),
                    ver |-> VerOf(m),
                    group |-> m.g1,
                    name |-> m.g2,
                    ep |-> m.g3,
                    specifier |-> IF m.g5 = None THEN <<>> ELSE m.g5,
                    crc |-> m.g6,
                    ext |-> m.g7,
                    filename |-> PathJoin(basedir, filename)]]

\* The call create_file_entity(filename, basedir)
CreateFileEntity(filename, basedir) ==
    EntityOf(MatchGroup(filename), filename, basedir)

----------------------------------------------------------------------------
(* neutralize_str, lines 554-558 *)

\* unicodedata.normalize('NFKD', c) for one character: the characters of
\* ASCII decompose to themselves; of the others the model holds these.
NFKD(c) ==
    CASE c = "U+00E9" -> <<"e", "U+0301">>       \* e with acute
      [] c = "U+00C5" -> <<"A", "U+030A">>       \* A with ring above
      [] c = "U+FB01" -> <<"f", "i">>            \* ligature fi
      [] c = "U+00B2" -> <<"2">>                 \* superscript two
      [] c = "U+00B5" -> <<"U+03BC">>            \* micro sign: Greek mu
      [] c = "U+212A" -> <<"K">>                 \* Kelvin sign
      [] OTHER -> <<c>>

\* unicodedata.combining(c) # 0
Combining(c) == c \in {"U+0301", "U+030A"}

\* c.casefold() for one character
Casefold(c) ==
    IF c \in Upper THEN <<LowerSeq[CHOOSE i \in 1..26 : UpperSeq[i] = c]>>
    ELSE IF c = "U+00DF" THEN <<"s", "s">>       \* sharp s
    ELSE <<c>>

\* "".join(parts)
RECURSIVE Concat(_)
Concat(parts) ==
    IF Len(parts) = 0 THEN <<>> ELSE parts[1] \o Concat(Tail(parts))

\* [a-z0-9_-]
NeutralChars == Lower \cup Digits \cup {"_", "-"}

\* A mutant of SubNeutral: the class of line 558 also keeps the dot
SubNeutralKeepsDot(s) ==
    [i \in 1..Len(s) |-> IF s[i] \in NeutralChars \cup {"."} THEN s[i] ELSE "_"]

\* re.sub(r'[^a-z0-9_-]', '_', s)
SubNeutral(s) == [i \in 1..Len(s) |-> IF s[i] \in NeutralChars THEN s[i] ELSE "_"]

NeutralizeStr(name) ==
    LET s1 == Concat([i \in 1..Len(name) |-> NFKD(name[i])])
        s2 == SelectSeq(s1, LAMBDA c : ~Combining(c))
    IN  SubNeutral(Concat([i \in 1..Len(s2) |-> Casefold(s2[i])]))

----------------------------------------------------------------------------
(* is_name_windows_safe, lines 560-571 *)

unsafe_windows_filenames ==
    { <<"C", "O", "N">>, <<"P", "R", "N">>, <<"A", "U", "X">>, <<"N", "U", "L">>,
      <<"C", "O", "M", "1">>, <<"C", "O", "M", "2">>, <<"C", "O", "M", "3">>,
      <<"C", "O", "M", "4">>, <<"C", "O", "M", "5">>, <<"C", "O", "M", "6">>,
      <<"C", "O", "M", "7">>, <<"C", "O", "M", "8">>, <<"C", "O", "M", "9">>,
      <<"L", "P", "T", "1">>, <<"L", "P", "T", "2">>, <<"L", "P", "T", "3">>,
      <<"L", "P", "T", "4">>, <<"L", "P", "T", "5">>, <<"L", "P", "T", "6">>,
      <<"L", "P", "T", "7">>, <<"L", "P", "T", "8">>, <<"L", "P", "T", "9">> }

\* The characters the class of line 571 keeps: the complement of the negated
\* class, i.e. space, the punctuation below, 0-9, A-Z and a-z.  The grave
\* accent is written "U+0060".
WindowsSafeChars ==
    {" ", "!", "#", "$", "%", "&", "(", ")", "+", ",", "-", ".", ";", "=", "@",
     "[", "]", "^", "_", "U+0060", "{", "}"} \cup Digits \cup Upper \cup Lower

\* re.sub(<the negated class>, r'', name): the unsafe characters removed
StripUnsafe(name) == SelectSeq(name, LAMBDA c : c \in WindowsSafeChars)

\* A mutant of IsNameWindowsSafe: the device names are compared without
\* regard to case
IsNameWindowsSafeAnyCase(name) ==
    /\ [i \in 1..Len(name) |->
           IF name[i] \in Lower
           THEN UpperSeq[CHOOSE k \in 1..26 : LowerSeq[k] = name[i]]
           ELSE name[i]] \notin unsafe_windows_filenames
    /\ name = StripUnsafe(name)

IsNameWindowsSafe(name) ==
    /\ name \notin unsafe_windows_filenames
    /\ name = StripUnsafe(name)

----------------------------------------------------------------------------
(* get_patch_name, lines 487-511.  A pattern is a sequence of items: text  *)
(* to copy, or a replacement field {name} or {name[index]}.                *)

Text(s) == [field |-> FALSE, text |-> s, name |-> "", index |-> -1]

Field(n) == [field |-> TRUE, text |-> <<>>, name |-> n, index |-> -1]

FieldAt(n, i) == [field |-> TRUE, text |-> <<>>, name |-> n, index |-> i]

\* The values a keyword argument of format() takes
StrVal(s) == [type |-> "str", s |-> s, n |-> 0, l |-> <<>>]

IntVal(n) == [type |-> "int", s |-> <<>>, n |-> n, l |-> <<>>]

ListVal(l) == [type |-> "list", s |-> <<>>, n |-> 0, l |-> l]

NoneVal == [type |-> "None", s |-> <<>>, n |-> 0, l |-> <<>>]

\* A parsed field that may be None
Opt(s) == IF s = None THEN NoneVal ELSE StrVal(s)

\* s.split(): the maximal runs of s without whitespace
RECURSIVE Split(_)
Split(s) ==
    IF Len(s) = 0 THEN <<>>
    ELSE IF s[1] = " " THEN Split(Tail(s))
    ELSE LET n == RunLen(s, 1, Range(s) \ {" "})
         IN  <<SubSeq(s, 1, n)>> \o Split(SubSeq(s, n + 1, Len(s)))

\* Lines 499-501
SpecifierItems(specifier) ==
    LET items == IF Len(specifier) > 0 THEN Split(specifier) ELSE << <<>> >>
    IN  [i \in 1..Len(items) |-> NeutralizeStr(items[i])]

\* The names format() is given, lines 490-507
PatchVariables ==
    {"raw_group", "raw_name", "raw_ep", "raw_specifier", "raw_ext", "group",
     "name", "ep", "specifier", "specifier_items", "type", "ext", "v_old",
     "v_new", "hash_old", "hash_new"}

\* Evaluating the arguments raises TypeError when neutralize_str is given
\* None: unicodedata.normalize('NFKD', None), lines 495 and 497.
ArgumentsRaise(source) == source.group = None \/ source.ep = None

Arguments(source, target) ==
    [v \in PatchVariables |->
        CASE v = "raw_group" -> Opt(source.group)
          [] v = "raw_name" -> StrVal(source.name)
          [] v = "raw_ep" -> Opt(source.ep)
          [] v = "raw_specifier" -> StrVal(source.specifier)
          [] v = "raw_ext" -> StrVal(source.ext)
          [] v = "group" -> StrVal(NeutralizeStr(source.group))
          [] v = "name" -> StrVal(NeutralizeStr(source.name))
          [] v = "ep" -> StrVal(NeutralizeStr(source.ep))
          [] v = "specifier" -> StrVal(NeutralizeStr(source.specifier))
          [] v = "specifier_items" -> ListVal(SpecifierItems(source.specifier))
          [] v = "type" -> StrVal(NeutralizeStr(source.specifier \o source.ext))
          [] v = "ext" -> StrVal(NeutralizeStr(source.ext))
          [] v = "v_old" -> IntVal(source.ver)
          [] v = "v_new" -> IntVal(target.ver)
          [] v = "hash_old" -> Opt(source.crc)
          [] v = "hash_new" -> Opt(target.crc)]

\* repr() of a list of strings without quotes or backslashes
RECURSIVE ReprItems(_)
ReprItems(l) ==
    IF Len(l) = 0 THEN <<>>
    ELSE <<"'">> \o l[1] \o <<"'">>
         \o (IF Len(l) > 1 THEN <<",", " ">> ELSE <<>>) \o ReprItems(Tail(l))

\* format(value, '')
Render(v) ==
    CASE v.type = "str" -> v.s
      [] v.type = "int" -> StrOfInt(v.n)
      [] v.type = "None" -> <<"N", "o", "n", "e">>
      [] v.type = "list" -> <<"[">> \o ReprItems(v.l) \o <<"]">>

\* One replacement field: what it raises, and its text
FormatField(item, args) ==
    IF item.name \notin DOMAIN args THEN [raises |-> "KeyError", text |-> <<>>]
    ELSE LET v == args[item.name]
             seq == IF v.type = "list" THEN v.l
                    ELSE [i \in 1..Len(v.s) |-> <<v.s[i]>>]
         IN  IF item.index < 0 THEN [raises |-> "", text |-> Render(v)]
             ELSE IF v.type \in {"int", "None"}
                  THEN [raises |-> "TypeError", text |-> <<>>]
             ELSE IF item.index >= Len(seq)
                  THEN [raises |-> "IndexError", text |-> <<>>]
             ELSE [raises |-> "", text |-> seq[item.index + 1]]

\* pattern.format(**args): the items are taken from left to right, and the
\* first one that raises ends the call.
RECURSIVE Format(_, _)
Format(items, args) ==
    IF Len(items) = 0 THEN [raises |-> "", text |-> <<>>]
    ELSE LET one == IF items[1].field THEN FormatField(items[1], args)
                    ELSE [raises |-> "", text |-> items[1].text]
             rest == Format(Tail(items), args)
         IN  IF one.raises # "" THEN one
             ELSE IF rest.raises # "" THEN rest
             ELSE [raises |-> "", text |-> one.text \o rest.text]

\* A mutant of GetPatchName: an unknown variable gives an empty name
\* instead of ending the run
GetPatchNameSkipsUnknown(pat, source, target) ==
    IF ArgumentsRaise(source) THEN [raises |-> "TypeError", text |-> <<>>]
    ELSE LET r == Format(pat, Arguments(source, target))
         IN  IF r.raises = "KeyError" THEN [raises |-> "", text |-> <<>>]
             ELSE r

\* get_patch_name(source, target) under a pattern: what leaves the call
\* ("" when it returns; SystemExit is the exit() of line 511, which the
\* KeyError of an unknown variable leads to) and the name returned.
GetPatchName(pat, source, target) ==
    IF ArgumentsRaise(source) THEN [raises |-> "TypeError", text |-> <<>>]
    ELSE LET r == Format(pat, Arguments(source, target))
         IN  IF r.raises = "KeyError" THEN [raises |-> "SystemExit", text |-> <<>>]
             ELSE r

----------------------------------------------------------------------------
(* The state of a run that has not started, for the specifications that    *)
(* call one function on its own.                                           *)

IdleRun ==
    /\ pc = "idle"
    /\ exc = ""
    /\ old_files = <<>>
    /\ new_files = <<>>
    /\ pattern = <<>>
    /\ args_zip = "unread"
    /\ old_parsed = <<>>
    /\ new_parsed = <<>>
    /\ filemap = <<>>
    /\ gi = 0
    /\ resolved_relations = <<>>
    /\ file_pairs = <<>>
    /\ steps = <<>>
    /\ pi = 0
    /\ calls = <<>>
    /\ temps = {}
    /\ script = <<>>

NotCalled == [called |-> FALSE]

----------------------------------------------------------------------------
(* SpecParse: create_file_entity on filenames put together from segments.  *)

\* How many segments a filename is put together from
MaxSegments == 3

BaseDir == <<"d">>

FilenameStems ==
    { <<>>,
      <<"S">>,
      <<"[", "G", "]", " ", "S">>,
      <<"[", "G", "]", " ", "S", " ", "-", " ", "0", "1">>,
      <<"S", " ", "-", " ", "E">>,
      <<"S", " ", "-", " ", "1", "v", "0">>,
      <<"a", ".", "b">> }

FilenameSegments ==
    { <<"v">>,
      <<"0">>,
      <<"2">>,
      <<" ", "(", "H", ")">>,
      <<" ", "[", "A", "B", "C", "D", "E", "F", "1", "2", "]">>,
      <<".", "m", "k", "v">>,
      <<".", "t", "o", "r", "r", "e", "n", "t">>,
      <<"x">> }

ParseInit ==
    /\ IdleRun
    /\ arg \in {[name |-> stem, n |-> 0] : stem \in FilenameStems}
    /\ ret = NotCalled

AppendSegment ==
    /\ ~ret.called
    /\ arg.n < MaxSegments
    /\ \E seg \in FilenameSegments :
           arg' = [name |-> arg.name \o seg, n |-> arg.n + 1]
    /\ UNCHANGED <<ret, runVars>>

CallCreateFileEntity ==
    /\ ~ret.called
    /\ ret' = [called |-> TRUE, result |-> CreateFileEntity(arg.name, BaseDir)]
    /\ UNCHANGED <<arg, runVars>>

ParseNext == AppendSegment \/ CallCreateFileEntity

SpecParse == ParseInit /\ [][ParseNext]_vars

----------------------------------------------------------------------------
(* SpecKeys: create_file_entity on two filenames, each put together from   *)
(* a stem and segments.                                                    *)

\* How many segments are appended to each of the two filenames
MaxKeySegments == 2

KeyStems ==
    { <<"[", "A", "]", " ", "7">>,
      <<"A", " ", "-", " ", "7">>,
      <<"A">> }

KeySegments ==
    { <<" ", "-", " ", "1">>,
      <<" ", "(", "1", ")">>,
      <<"v", "2">>,
      <<".", "m", "k", "v">> }

KeysInit ==
    /\ IdleRun
    /\ arg \in {[first |-> a, second |-> b, n1 |-> 0, n2 |-> 0] :
                   a \in KeyStems, b \in KeyStems}
    /\ ret = NotCalled

AppendToFirst ==
    /\ ~ret.called
    /\ arg.n1 < MaxKeySegments
    /\ \E seg \in KeySegments :
           arg' = [arg EXCEPT !.first = @ \o seg, !.n1 = @ + 1]
    /\ UNCHANGED <<ret, runVars>>

AppendToSecond ==
    /\ ~ret.called
    /\ arg.n2 < MaxKeySegments
    /\ \E seg \in KeySegments :
           arg' = [arg EXCEPT !.second = @ \o seg, !.n2 = @ + 1]
    /\ UNCHANGED <<ret, runVars>>

CallCreateFileEntityTwice ==
    /\ ~ret.called
    /\ ret' = [called |-> TRUE,
               first |-> CreateFileEntity(arg.first, BaseDir),
               second |-> CreateFileEntity(arg.second, BaseDir)]
    /\ UNCHANGED <<arg, runVars>>

KeysNext == AppendToFirst \/ AppendToSecond \/ CallCreateFileEntityTwice

SpecKeys == KeysInit /\ [][KeysNext]_vars

----------------------------------------------------------------------------
(* SpecNeutralize: neutralize_str on strings put together from characters, *)
(* and on what it returned.                                                *)

\* How many characters a string given to neutralize_str has at most
MaxChars == 3

NeutralizeAlphabet ==
    {"a", "Z", "7", "_", "-", " ", ".", "U+00E9", "U+0301", "U+00DF", "U+FB01",
     "U+00B5"}

NeutralizeInit ==
    /\ IdleRun
    /\ arg = <<>>
    /\ ret = NotCalled

AppendChar ==
    /\ ~ret.called
    /\ Len(arg) < MaxChars
    /\ \E c \in NeutralizeAlphabet : arg' = Append(arg, c)
    /\ UNCHANGED <<ret, runVars>>

\* neutralize_str(arg), then neutralize_str of what it returned
CallNeutralizeStr ==
    /\ ~ret.called
    /\ ret' = [called |-> TRUE,
               result |-> NeutralizeStr(arg),
               again |-> NeutralizeStr(NeutralizeStr(arg))]
    /\ UNCHANGED <<arg, runVars>>

NeutralizeNext == AppendChar \/ CallNeutralizeStr

SpecNeutralize == NeutralizeInit /\ [][NeutralizeNext]_vars

----------------------------------------------------------------------------
(* SpecSafe: is_name_windows_safe on the device names, on names close to   *)
(* them and on names with characters appended.                             *)

\* How many characters are appended to a name given to is_name_windows_safe
MaxAppended == 2

SafeStems ==
    unsafe_windows_filenames
        \cup { <<>>, <<"c", "o", "n">>, <<"C", "o", "n">>, <<"C", "O">>,
               <<"C", "O", "M">>, <<"L", "P", "T", "0">>,
               <<"S", "h", "o", "w", "_", "0", "1">> }

SafeAlphabet ==
    {"N", "1", ".", " ", "U+0060", "~", "'", "*", "U+00F3", "x"}

SafeInit ==
    /\ IdleRun
    /\ arg \in {[name |-> stem, n |-> 0] : stem \in SafeStems}
    /\ ret = NotCalled

AppendToName ==
    /\ ~ret.called
    /\ arg.n < MaxAppended
    /\ \E c \in SafeAlphabet : arg' = [name |-> Append(arg.name, c), n |-> arg.n + 1]
    /\ UNCHANGED <<ret, runVars>>

CallIsNameWindowsSafe ==
    /\ ~ret.called
    /\ ret' = [called |-> TRUE, result |-> IsNameWindowsSafe(arg.name)]
    /\ UNCHANGED <<arg, runVars>>

SafeNext == AppendToName \/ CallIsNameWindowsSafe

SpecSafe == SafeInit /\ [][SafeNext]_vars

----------------------------------------------------------------------------
(* identify_file_pairs_by_name, lines 406-481 *)

\* The characters of ASCII from the space (code 32) to the tilde (code 126)
AsciiSeq ==
    <<" ", "!", "\"", "#", "$", "%", "&", "'", "(", ")", "*", "+", ",",
      "-", ".", "/", "0", "1", "2", "3", "4", "5", "6", "7", "8", "9", ":",
      ";", "<", "=", ">", "?", "@", "A", "B", "C", "D", "E", "F", "G", "H",
      "I", "J", "K", "L", "M", "N", "O", "P", "Q", "R", "S", "T", "U", "V",
      "W", "X", "Y", "Z", "[", "\\", "]", "^", "_", "U+0060", "a", "b",
      "c", "d", "e", "f", "g", "h", "i", "j", "k", "l", "m", "n", "o", "p",
      "q", "r", "s", "t", "u", "v", "w", "x", "y", "z", "{", "|", "}", "~">>

\* ord(c), for the characters of AsciiSeq
Ord(c) == 31 + (CHOOSE i \in 1..Len(AsciiSeq) : AsciiSeq[i] = c)

\* a < b for two strings: the comparison of the sort of line 172
RECURSIVE StrLess(_, _)
StrLess(a, b) ==
    IF Len(b) = 0 THEN FALSE
    ELSE IF Len(a) = 0 THEN TRUE
    ELSE IF a[1] = b[1] THEN StrLess(Tail(a), Tail(b))
    ELSE Ord(a[1]) < Ord(b[1])

\* Lines 425-429: one parsed file of the old directory put into the map
AddSource(map, file) ==
    IF \E i \in 1..Len(map) : map[i].key = file.key
    THEN [i \in 1..Len(map) |->
            IF map[i].key = file.key
            THEN [map[i] EXCEPT !.old = Append(@, file)]
            ELSE map[i]]
    ELSE Append(map, [key |-> file.key, old |-> <<file>>, new |-> <<>>])

\* Lines 433-449: one parsed file of the new directory; it is ignored when
\* its key is not in the map
AddTarget(map, file) ==
    [i \in 1..Len(map) |->
        IF map[i].key = file.key
        THEN [map[i] EXCEPT !.new = Append(@, file)]
        ELSE map[i]]

\* The loops of lines 413 and 431 over the parsed files, None skipped
RECURSIVE AddSources(_, _)
AddSources(map, files) ==
    IF Len(files) = 0 THEN map
    ELSE AddSources(IF files[1].none THEN map ELSE AddSource(map, files[1]),
                    Tail(files))

RECURSIVE AddTargets(_, _)
AddTargets(map, files) ==
    IF Len(files) = 0 THEN map
    ELSE AddTargets(IF files[1].none THEN map ELSE AddTarget(map, files[1]),
                    Tail(files))

\* The list comprehensions of lines 413 and 431
ParseAll(names, dir) == [i \in 1..Len(names) |-> CreateFileEntity(names[i], dir)]

AnyRaises(parsed) == \E i \in 1..Len(parsed) : parsed[i].raises # ""

Files(parsed) == [i \in 1..Len(parsed) |-> parsed[i].file]

\* A mutant of HighestVersion: the last of the files with the greatest
\* version
HighestVersionLast(files) ==
    files[Max({i \in 1..Len(files) :
                  \A j \in 1..Len(files) : files[j].ver <= files[i].ver})]

\* max(files, key=lambda x: x['ver']), lines 463-464: the first of the files
\* with the greatest version
HighestVersion(files) ==
    files[Min({i \in 1..Len(files) :
                  \A j \in 1..Len(files) : files[j].ver <= files[i].ver})]

\* Lines 473-476: the tuple appended to resolved_relations
Relation(pat, source, target) ==
    [source |-> source.filename,
     target |-> target.filename,
     patch_name |-> GetPatchName(pat, source, target).text,
     key |-> target.key,
     safe |-> /\ IsNameWindowsSafe(Basename(source.filename))
              /\ IsNameWindowsSafe(Basename(target.filename))]

\* file_pairs.sort(key=lambda item: item[0]), line 172: a stable sort
\* A mutant of SortBySource: the pairs are left in the order the pairing
\* pass returned them
SortBySourceOmitted(pairs) == pairs

RECURSIVE SortBySource(_)
SortBySource(pairs) ==
    IF Len(pairs) <= 1 THEN pairs
    ELSE LET rest == SortBySource(SubSeq(pairs, 1, Len(pairs) - 1))
             last == pairs[Len(pairs)]
             n == Cardinality({i \in 1..Len(rest) :
                                  ~StrLess(last.source, rest[i].source)})
         IN  SubSeq(rest, 1, n) \o <<last>> \o SubSeq(rest, n + 1, Len(rest))

OldDir == <<"o">>

NewDir == <<"n">>

\* Lines 409-449: the two directories are listed, the files of the old one
\* parsed and grouped by key, then those of the new one parsed and put with
\* the group of their key
Scan ==
    /\ pc = "scan"
    /\ ~AnyRaises(ParseAll(old_files, OldDir))
    /\ ~AnyRaises(ParseAll(new_files, NewDir))
    /\ old_parsed' = Files(ParseAll(old_files, OldDir))
    /\ new_parsed' = Files(ParseAll(new_files, NewDir))
    /\ filemap' = AddTargets(AddSources(<<>>, old_parsed'), new_parsed')
    /\ pc' = "prune"
    /\ UNCHANGED <<exc, old_files, new_files, pattern, args_zip, gi,
                   resolved_relations, file_pairs, steps, arg, ret,
                   patchVars>>

\* Lines 413 and 431: create_file_entity raises on one of the files
ScanRaises ==
    /\ pc = "scan"
    /\ \/ AnyRaises(ParseAll(old_files, OldDir))
       \/ AnyRaises(ParseAll(new_files, NewDir))
    /\ pc' = "raised"
    /\ exc' = "ValueError"
    /\ UNCHANGED <<old_files, new_files, pattern, args_zip, filemap, gi,
                   resolved_relations, file_pairs, steps, arg, ret,
                   patchVars, parsedVars>>

\* Lines 452-461
Prune ==
    /\ pc = "prune"
    /\ filemap' = SelectSeq(filemap, LAMBDA g : Len(g.new) >= 1)
    /\ resolved_relations' = <<>>
    /\ gi' = 0
    /\ pc' = "resolve"
    /\ UNCHANGED <<exc, old_files, new_files, pattern, args_zip, file_pairs,
                   steps, arg, ret,
                   patchVars, parsedVars>>

\* Lines 462-470: the next group, whose highest versions are equal
SkipGroup ==
    /\ pc = "resolve"
    /\ gi < Len(filemap)
    /\ LET group == filemap[gi + 1]
       IN  HighestVersion(group.old).ver = HighestVersion(group.new).ver
    /\ gi' = gi + 1
    /\ UNCHANGED <<pc, exc, old_files, new_files, pattern, args_zip, filemap,
                   resolved_relations, file_pairs, steps, arg, ret,
                   patchVars, parsedVars>>

\* Lines 462-479: the next group, whose highest versions differ
ResolveGroup ==
    /\ pc = "resolve"
    /\ gi < Len(filemap)
    /\ LET group == filemap[gi + 1]
           highest_source == HighestVersion(group.old)
           highest_target == HighestVersion(group.new)
       IN  /\ highest_source.ver # highest_target.ver
           /\ GetPatchName(pattern, highest_source, highest_target).raises = ""
           /\ resolved_relations' =
                  Append(resolved_relations,
                         Relation(pattern, highest_source, highest_target))
    /\ gi' = gi + 1
    /\ UNCHANGED <<pc, exc, old_files, new_files, pattern, args_zip, filemap,
                   file_pairs, steps, arg, ret,
                   patchVars, parsedVars>>

\* Line 472: get_patch_name does not return
ResolveGroupRaises ==
    /\ pc = "resolve"
    /\ gi < Len(filemap)
    /\ LET group == filemap[gi + 1]
           highest_source == HighestVersion(group.old)
           highest_target == HighestVersion(group.new)
           name == GetPatchName(pattern, highest_source, highest_target)
       IN  /\ highest_source.ver # highest_target.ver
           /\ name.raises # ""
           /\ exc' = name.raises
           /\ pc' = IF name.raises = "SystemExit" THEN "exit" ELSE "raised"
    /\ gi' = gi + 1
    /\ UNCHANGED <<old_files, new_files, pattern, args_zip, filemap,
                   resolved_relations, file_pairs, steps, arg, ret,
                   patchVars, parsedVars>>

\* Lines 481 and 168
ReturnRelations ==
    /\ pc = "resolve"
    /\ gi = Len(filemap)
    /\ file_pairs' = resolved_relations
    /\ pc' = "returned"
    /\ UNCHANGED <<exc, old_files, new_files, pattern, args_zip, filemap, gi,
                   resolved_relations, steps, arg, ret,
                   patchVars, parsedVars>>

----------------------------------------------------------------------------
(* run, lines 166-183, after check_prerequisites has passed *)

Step(from, to, what) ==
    /\ pc = from
    /\ pc' = to
    /\ steps' = Append(steps, what)

\* Lines 170-172
SortPairs ==
    /\ Len(file_pairs) > 0
    /\ Step("returned", "generate_patches", "sort")
    /\ file_pairs' = SortBySource(file_pairs)
    /\ UNCHANGED <<exc, old_files, new_files, pattern, args_zip, filemap, gi,
                   resolved_relations, arg, ret,
                   patchVars, parsedVars>>

\* args.target
TargetDir == <<"t">>

\* Lines 242-243: '~' + os.path.basename(pair[2]) + suffix
TempName(pair, suffix) == <<"~">> \o Basename(pair.patch_name) \o suffix

\* Lines 270-282: subprocess.call returns zero, returns another value, or
\* raises OSError because the executable cannot be started
XdeltaOutcomes == {"zero", "nonzero", "OSError"}

\* Lines 234-282: the next pair.  The copies of lines 246-247 are made for
\* a pair that is not safe; the unlinks of lines 278-279 are inside the try
\* block, after the call, so they are skipped when the call raises
GeneratePatch ==
    /\ pc = "generate_patches"
    /\ pi < Len(file_pairs)
    /\ \E ret_call \in XdeltaOutcomes :
           LET pair == file_pairs[pi + 1]
               temp_source_name == TempName(pair, <<".", "s", "r", "c">>)
               temp_target_name == TempName(pair, <<".", "d", "s", "t">>)
               effective_source == IF pair.safe THEN pair.source ELSE temp_source_name
               effective_target == IF pair.safe THEN pair.target ELSE temp_target_name
               copied == IF pair.safe THEN temps
                         ELSE temps \cup {temp_source_name, temp_target_name}
           IN  /\ calls' = Append(calls, [source |-> effective_source,
                                          target |-> effective_target,
                                          patch |-> PathJoin(TargetDir, pair.patch_name),
                                          ret |-> ret_call])
               /\ temps' = IF ret_call # "OSError" /\ ~pair.safe
                           THEN copied \ {temp_source_name, temp_target_name}
                           ELSE copied
    /\ pi' = pi + 1
    /\ UNCHANGED <<pc, exc, old_files, new_files, pattern, args_zip, filemap, gi,
                   resolved_relations, file_pairs, steps, script, arg, ret,
                   parsedVars>>

\* Lines 182-183
NoFilePairs ==
    /\ pc = "returned"
    /\ Len(file_pairs) = 0
    /\ pc' = "done"
    /\ UNCHANGED <<exc, old_files, new_files, pattern, args_zip, filemap, gi,
                   resolved_relations, file_pairs, steps, arg, ret,
                   patchVars, parsedVars>>

\* Line 174: the loop of line 234 is over and generate_patches returns
GeneratePatches ==
    /\ pi = Len(file_pairs)
    /\ Step("generate_patches", "generate_win_script", "generate_patches")
    /\ UNCHANGED <<exc, old_files, new_files, pattern, args_zip, filemap, gi,
                   resolved_relations, file_pairs, arg, ret,
                   patchVars, parsedVars>>

\* Lines 310-374: the block of one pair in the script; a pair that is not
\* safe gets the block that copies to the temporary names
ScriptBlock(pair) ==
    [old |-> Basename(pair.source),
     new |-> Basename(pair.target),
     patch |-> Basename(pair.patch_name),
     workaround |-> ~pair.safe]

\* Line 175, lines 284-381
GenerateWinScript ==
    /\ Step("generate_win_script", "copy_executable", "generate_win_script")
    /\ script' = [i \in 1..Len(file_pairs) |-> ScriptBlock(file_pairs[i])]
    /\ UNCHANGED <<exc, old_files, new_files, pattern, args_zip, filemap, gi,
                   resolved_relations, file_pairs, pi, calls, temps, arg, ret,
                   parsedVars>>

\* Line 176
CopyExecutable ==
    /\ Step("copy_executable", "archive", "copy_executable")
    /\ UNCHANGED <<exc, old_files, new_files, pattern, args_zip, filemap, gi,
                   resolved_relations, file_pairs, arg, ret,
                   patchVars, parsedVars>>

\* args.zip, lines 112-117: True with -z; without it the default of the
\* argument, which is self.xdelta_location
ZipValues == {"True", "xdelta_location"}

\* Lines 178-181: args.zip is read, and the archive is created unless it is
\* None
Archive ==
    /\ pc = "archive"
    /\ pc' = "done"
    /\ \E zip \in ZipValues :
           /\ args_zip' = zip
           /\ steps' = IF zip # "None" THEN Append(steps, "create_archive")
                       ELSE steps
    /\ UNCHANGED <<exc, old_files, new_files, pattern, filemap, gi,
                   resolved_relations, file_pairs, arg, ret,
                   patchVars, parsedVars>>

----------------------------------------------------------------------------
(* Spec: one run over the listings of two directories.                     *)

\* How many files a directory holds at most
MaxFiles == 2

OldPool ==
    { <<"[", "G", "]", " ", "S", " ", "-", " ", "1", "v", "1", ".", "m", "k", "v">>,
      <<"[", "G", "]", " ", "S", " ", "-", " ", "1", "v", "2", ".", "m", "k", "v">>,
      <<"[", "G", "]", " ", "S", " ", "-", " ", "E", "v", "1", ".", "m", "k", "v">>,
      <<"[", "G", "'", "]", " ", "S", " ", "-", " ", "1", "v", "1", ".", "m", "k", "v">>,
      <<"S", " ", "-", " ", "1", ".", "m", "k", "v">>,
      <<"S", "v", ".", "m", "k", "v">> }

NewPool ==
    { <<"[", "G", "]", " ", "S", " ", "-", " ", "1", "v", "2", ".", "m", "k", "v">>,
      <<"[", "G", "]", " ", "S", " ", "-", " ", "1", "v", "0", "2", ".", "m", "k", "v">>,
      <<"[", "G", "]", " ", "S", " ", "-", " ", "E", "v", "2", ".", "m", "k", "v">>,
      <<"[", "G", "'", "]", " ", "S", " ", "-", " ", "1", "v", "2", ".", "m", "k", "v">>,
      <<"S", " ", "-", " ", "1", "v", "3", ".", "m", "k", "v">>,
      <<"x", ".", "t", "o", "r", "r", "e", "n", "t">> }

\* The listings of a directory: its files in any order
Listings(pool) ==
    {l \in UNION {[1..n -> pool] : n \in 0..MaxFiles} :
        \A i, j \in 1..Len(l) : l[i] = l[j] => i = j}

\* The default of --patch-pattern, line 144:
\* {name}{specifier_items[0]}_{ep}_v{v_old}v{v_new}.vcdiff
DefaultPattern ==
    <<Field("name"), FieldAt("specifier_items", 0), Text(<<"_">>), Field("ep"),
      Text(<<"_", "v">>), Field("v_old"), Text(<<"v">>), Field("v_new"),
      Text(<<".", "v", "c", "d", "i", "f", "f">>)>>

\* {name}_{episode}.vcdiff, episode being no variable of get_patch_name
UnknownVariablePattern ==
    <<Field("name"), Text(<<"_">>), Field("episode"),
      Text(<<".", "v", "c", "d", "i", "f", "f">>)>>

Patterns == {DefaultPattern, UnknownVariablePattern}

Init ==
    /\ pc = "scan"
    /\ exc = ""
    /\ old_files \in Listings(OldPool)
    /\ new_files \in Listings(NewPool)
    /\ pattern \in Patterns
    /\ args_zip = "unread"
    /\ old_parsed = <<>>
    /\ new_parsed = <<>>
    /\ filemap = <<>>
    /\ gi = 0
    /\ resolved_relations = <<>>
    /\ file_pairs = <<>>
    /\ steps = <<>>
    /\ pi = 0
    /\ calls = <<>>
    /\ temps = {}
    /\ script = <<>>
    /\ arg = <<>>
    /\ ret = NotCalled

Next ==
    \/ Scan
    \/ ScanRaises
    \/ Prune
    \/ SkipGroup
    \/ ResolveGroup
    \/ ResolveGroupRaises
    \/ ReturnRelations
    \/ SortPairs
    \/ NoFilePairs
    \/ GeneratePatch
    \/ GeneratePatches
    \/ GenerateWinScript
    \/ CopyExecutable
    \/ Archive

Spec == Init /\ [][Next]_vars

---------------------------------------------------------------------------
\* Properties of the pairing pass and of run

\* The candidates of a key in a parsed listing: the records of that key
CandidatesOf(parsed, key) ==
    {parsed[i] : i \in {j \in 1..Len(parsed) : ~parsed[j].none /\ parsed[j].key = key}}

MaxVersion(files) == Max({f.ver : f \in files})

\* The pairing pass is over: it returned, or an exception or exit() left it
PassOver == pc \notin {"scan", "prune", "resolve"}

\* The pattern holds only variables that get_patch_name provides
RecognizedOnly(pat) ==
    \A i \in 1..Len(pat) : pat[i].field => pat[i].name \in PatchVariables

\* C1: once the pairing pass is over under a pattern of recognized variables,
\* a pair has been emitted for a key exactly when the key has a parsed
\* candidate in the old and in the new directory and the highest versions of
\* the two sides differ; a key has at most one pair, and a file of the new
\* directory whose key has no candidate in the old directory is in no pair.
C1_PairIffHighestVersionsDiffer ==
    (PassOver /\ RecognizedOnly(pattern)) =>
        \A key \in {f.key : f \in {file \in Range(old_parsed) \cup Range(new_parsed) :
                                       ~file.none}} :
            LET olds == CandidatesOf(old_parsed, key)
                news == CandidatesOf(new_parsed, key)
                emitted == {i \in 1..Len(resolved_relations) :
                               resolved_relations[i].key = key}
            IN  /\ Cardinality(emitted) <= 1
                /\ emitted # {} <=>
                      /\ olds # {}
                      /\ news # {}
                      /\ MaxVersion(olds) # MaxVersion(news)

\* C2: the source and the target of every emitted pair are the file of their
\* directory that has the pair's key and the greatest version among the
\* candidates of that key; of several files with that greatest version, it is
\* the one listed first.
C2_HighestVersionFirstListed ==
    \A r \in 1..Len(resolved_relations) :
        LET pair == resolved_relations[r]
            FirstHighest(parsed, i) ==
                /\ ~parsed[i].none
                /\ parsed[i].key = pair.key
                /\ \A j \in 1..Len(parsed) :
                      (~parsed[j].none /\ parsed[j].key = pair.key) =>
                          /\ parsed[j].ver <= parsed[i].ver
                          /\ j < i => parsed[j].ver < parsed[i].ver
        IN  /\ \E i \in 1..Len(old_files) :
                  /\ pair.source = PathJoin(OldDir, old_files[i])
                  /\ FirstHighest(old_parsed, i)
            /\ \E i \in 1..Len(new_files) :
                  /\ pair.target = PathJoin(NewDir, new_files[i])
                  /\ FirstHighest(new_parsed, i)

\* A pair has been emitted for a key that has two files of the same, greatest
\* version in the new directory
C2_TieResolved ==
    /\ pc = "returned"
    /\ \E r \in 1..Len(resolved_relations) :
          \E i, j \in 1..Len(new_files) :
              /\ i < j
              /\ ~new_parsed[i].none /\ ~new_parsed[j].none
              /\ new_parsed[i].key = resolved_relations[r].key
              /\ new_parsed[j].key = new_parsed[i].key
              /\ new_parsed[i].ver = new_parsed[j].ver
              /\ resolved_relations[r].target = PathJoin(NewDir, new_files[i])

\* "[G] S - <episode>v<version>.mkv"
ReleaseName(episode, version) ==
    <<"[", "G", "]", " ", "S", " ", "-", " ">> \o episode \o <<"v">>
        \o StrOfInt(version) \o <<".", "m", "k", "v">>

\* Episodes of optional letters followed by optional digits
Episodes == {<<"1">>, <<"E">>}

\* C3: with the default pattern, an old directory holding only
\* "[G] S - <episode>v<a>.mkv" and a new directory holding only
\* "[G] S - <episode>v<b>.mkv", a # b, give exactly one pair, from the old
\* file to the new one, named after v_old = a and v_new = b, whatever
\* the episode of letters followed by digits.
C3_MarkerVersionsPair ==
    \A episode \in Episodes : \A a, b \in 1..2 :
        ( /\ a # b
          /\ pattern = DefaultPattern
          /\ old_files = <<ReleaseName(episode, a)>>
          /\ new_files = <<ReleaseName(episode, b)>>
          /\ PassOver ) =>
            /\ Len(resolved_relations) = 1
            /\ resolved_relations[1].source = PathJoin(OldDir, old_files[1])
            /\ resolved_relations[1].target = PathJoin(NewDir, new_files[1])
            /\ resolved_relations[1].patch_name =
                   <<"s", "_">> \o NeutralizeStr(episode) \o <<"_", "v">>
                       \o StrOfInt(a) \o <<"v">> \o StrOfInt(b)
                       \o <<".", "v", "c", "d", "i", "f", "f">>

\* C4: with a pattern of recognized variables only, no exception and no
\* exit() leaves the pairing pass.
C4_PairingNeverFatal ==
    RecognizedOnly(pattern) => pc \notin {"raised", "exit"}

\* The pairing pass has formatted the patch name of a pair
NameFormatted ==
    \E i \in 1..gi :
        HighestVersion(filemap[i].old).ver # HighestVersion(filemap[i].new).ver

\* C5: once a patch name has been formatted under a pattern that holds a
\* variable get_patch_name does not provide, the run has stopped: no pair
\* has been returned and no later step of run has been taken.
C5_UnknownVariableStopsRun ==
    (~RecognizedOnly(pattern) /\ NameFormatted) =>
        /\ pc \in {"exit", "raised"}
        /\ exc # ""
        /\ resolved_relations = <<>>
        /\ file_pairs = <<>>
        /\ steps = <<>>

\* exit() has ended the run at the second group, the first having been
\* skipped
C5_ExitAfterSkippedGroup ==
    /\ pc = "exit"
    /\ exc = "SystemExit"
    /\ ~RecognizedOnly(pattern)
    /\ gi = 2
    /\ steps = <<>>

\* The order of the downstream steps in run
RunOrder ==
    <<"sort", "generate_patches", "generate_win_script", "copy_executable",
      "create_archive">>

\* C11: the downstream steps of run are taken only after the pairing pass
\* returned at least one pair, and in the order sort, generate_patches,
\* generate_win_script, copy_executable (then the archive); the pairs are
\* then in ascending order of their source path, the diff tool is called for
\* them one after another in that order, and the script holds their blocks
\* in that order; with no pair returned, no step at all is taken.
C11_StepsInOrderOnlyWithPairs ==
    /\ Len(steps) <= Len(RunOrder)
    /\ \A i \in 1..Len(steps) : steps[i] = RunOrder[i]
    /\ (steps # <<>> \/ calls # <<>> \/ script # <<>>) =>
          /\ pc \notin {"scan", "prune", "resolve", "returned", "raised", "exit"}
          /\ Len(resolved_relations) > 0
          /\ steps # <<>>
          /\ Len(file_pairs) = Len(resolved_relations)
          /\ Range(file_pairs) = Range(resolved_relations)
          /\ \A i, j \in 1..Len(file_pairs) :
                i < j => ~StrLess(file_pairs[j].source, file_pairs[i].source)
    /\ Len(calls) <= Len(file_pairs)
    /\ \A i \in 1..Len(calls) :
          /\ calls[i].patch = PathJoin(TargetDir, file_pairs[i].patch_name)
          /\ file_pairs[i].safe => /\ calls[i].source = file_pairs[i].source
                                   /\ calls[i].target = file_pairs[i].target
    /\ Len(calls) < Len(file_pairs) => Len(steps) <= 1
    /\ Len(steps) >= 2 => Len(calls) = Len(file_pairs)
    /\ script # <<>> <=> Len(steps) >= 3
    /\ script # <<>> =>
          /\ Len(script) = Len(file_pairs)
          /\ \A i \in 1..Len(script) :
                /\ script[i].old = Basename(file_pairs[i].source)
                /\ script[i].new = Basename(file_pairs[i].target)
    /\ (pc = "done" /\ Len(resolved_relations) = 0) =>
          steps = <<>> /\ calls = <<>> /\ script = <<>>

\* A run is done whose two pairs were returned in another order than the
\* sorted one
C11_TwoPairsSortedAndPatched ==
    /\ pc = "done"
    /\ Len(file_pairs) = 2
    /\ file_pairs # resolved_relations
    /\ Len(calls) = 2
    /\ Len(script) = 2
    /\ Len(steps) = 5

\* C12: when run is done after the downstream steps, the archive has been
\* created exactly when args.zip was read as True, the value the -z option
\* gives it.
C12_ArchiveOnlyWithZipOption ==
    (pc = "done" /\ steps # <<>>) =>
        ("create_archive" \in Range(steps) <=> args_zip = "True")

\* C13: under the default pattern, two emitted pairs of different keys have
\* different patch names.
C13_DistinctPatchNames ==
    pattern = DefaultPattern =>
        \A i, j \in 1..Len(resolved_relations) :
            resolved_relations[i].key # resolved_relations[j].key =>
                resolved_relations[i].patch_name # resolved_relations[j].patch_name

\* C15: the diff tool is called on the temporary copies exactly for the
\* pairs that are not safe, on the original paths for the others, and no
\* temporary copy exists once the processing of a pair has ended.
C15_TemporaryCopiesRemoved ==
    /\ \A i \in 1..Len(calls) :
          LET pair == file_pairs[i]
          IN  IF pair.safe
              THEN /\ calls[i].source = pair.source
                   /\ calls[i].target = pair.target
              ELSE /\ calls[i].source =
                          <<"~">> \o pair.patch_name \o <<".", "s", "r", "c">>
                   /\ calls[i].target =
                          <<"~">> \o pair.patch_name \o <<".", "d", "s", "t">>
    /\ temps = {}

---------------------------------------------------------------------------
\* Properties of create_file_entity

\* The version marker of a filename: what the version group of the expression
\* holds, None without a marker
Marker(filename) == MatchGroup(filename).g4

Returned == ret.called /\ ret.result.raises = "" /\ ~ret.result.file.none

\* C6: a filename that matches and has no version marker, or a marker "v"
\* without digits, parses to a record of version 1.
C6_NoDigitsIsVersion1 ==
    (ret.called /\ MatchGroup(arg.name).ok /\ Marker(arg.name) \in {None, <<>>}) =>
        /\ ret.result.raises = ""
        /\ ~ret.result.file.none
        /\ ret.result.file.ver = 1

\* C7 as stated: every returned record has a non-empty name, a non-empty
\* extension and a version of at least 1.
C7_VersionAtLeastOne ==
    Returned =>
        /\ Len(ret.result.file.name) > 0
        /\ Len(ret.result.file.ext) > 0
        /\ ret.result.file.ver \in Nat
        /\ ret.result.file.ver >= 1

\* C7 amended: every returned record has a non-empty name, a non-empty
\* extension and a version of at least 0; the version is 0 exactly when the
\* filename has a version marker whose digits are all zeros.
C7_VersionZeroOnlyForZeroMarker ==
    Returned =>
        /\ Len(ret.result.file.name) > 0
        /\ Len(ret.result.file.ext) > 0
        /\ ret.result.file.ver \in Nat
        /\ ret.result.file.ver = 0 <=>
              /\ Marker(arg.name) # None
              /\ Len(Marker(arg.name)) > 0
              /\ Range(Marker(arg.name)) = {"0"}

\* A record of version 0 has been returned for a marker "v00"
C7_MarkerOfZeros ==
    /\ Returned
    /\ Marker(arg.name) = <<"0", "0">>
    /\ ret.result.file.ver = 0

\* C8: a filename whose text after the last dot is "torrent" parses to None,
\* without an exception.
C8_TorrentIsNone ==
    (/\ ret.called
     /\ LastIndex(arg.name, ".") > 0
     /\ SubSeq(arg.name, LastIndex(arg.name, ".") + 1, Len(arg.name))
            = <<"t", "o", "r", "r", "e", "n", "t">>) =>
        /\ ret.result.raises = ""
        /\ ret.result.file.none

\* A filename of several dots that ends in ".mkv.torrent" has parsed to None
C8_TorrentAfterOtherExtension ==
    /\ ret.called
    /\ Len(arg.name) > 12
    /\ SubSeq(arg.name, Len(arg.name) - 11, Len(arg.name))
           = <<".", "m", "k", "v", ".", "t", "o", "r", "r", "e", "n", "t">>
    /\ ret.result.file.none

\* C14: two records returned by create_file_entity have equal keys exactly
\* when they have equal group, name, episode, specifier and extension.
C14_EqualKeysIffEqualFields ==
    (/\ ret.called
     /\ ret.first.raises = "" /\ ~ret.first.file.none
     /\ ret.second.raises = "" /\ ~ret.second.file.none) =>
        LET a == ret.first.file
            b == ret.second.file
        IN  a.key = b.key <=>
                /\ a.group = b.group
                /\ a.name = b.name
                /\ a.ep = b.ep
                /\ a.specifier = b.specifier
                /\ a.ext = b.ext

---------------------------------------------------------------------------
\* Properties of neutralize_str

\* C9: the output of neutralize_str holds only lowercase ASCII letters,
\* digits, underscores and hyphens, and neutralize_str applied to it gives
\* it back.
C9_NeutralAndIdempotent ==
    ret.called =>
        /\ \A i \in 1..Len(ret.result) :
              ret.result[i] \in Lower \cup Digits \cup {"_", "-"}
        /\ ret.again = ret.result

\* A name of an accented letter, an uppercase letter and a dot has been
\* neutralized
C9_MixedNameNeutralized ==
    /\ ret.called
    /\ "U+00E9" \in Range(arg)
    /\ "." \in Range(arg)
    /\ \E i \in 1..Len(arg) : arg[i] \in Upper
    /\ Len(ret.result) = 3

---------------------------------------------------------------------------
\* Properties of is_name_windows_safe

\* CON, PRN, AUX, NUL, COM1 to COM9 and LPT1 to LPT9
DeviceNames ==
    {<<"C", "O", "N">>, <<"P", "R", "N">>, <<"A", "U", "X">>, <<"N", "U", "L">>}
    \cup {<<"C", "O", "M", DigitSeq[d + 1]>> : d \in 1..9}
    \cup {<<"L", "P", "T", DigitSeq[d + 1]>> : d \in 1..9}

\* Letters, digits, the space and the punctuation the claim lists
Allowlist ==
    Letters \cup Digits \cup
    {" ", "!", "#", "$", "%", "&", "(", ")", "+", ",", "-", ".", ";", "=",
     "@", "[", "]", "^", "_", "U+0060", "{", "}"}

\* C10: is_name_windows_safe returns a boolean, and it returns False exactly
\* when the name is one of the device names, in that exact case, or holds a
\* character outside the allowlist.
C10_UnsafeIffDeviceNameOrCharacter ==
    ret.called =>
        /\ ret.result \in BOOLEAN
        /\ ret.result = FALSE <=>
              \/ arg.name \in DeviceNames
              \/ \E i \in 1..Len(arg.name) : arg.name[i] \notin Allowlist

\* A device name in lowercase has been found safe
C10_LowercaseDeviceNameSafe ==
    /\ ret.called
    /\ arg.name = <<"c", "o", "n">>
    /\ ret.result = TRUE

===========================================================================
